---- MODULE Spec2Model ----
(***************************************************************************)
(* Model of scripts/local_cloudbuild.py: validation of a decoded           *)
(* cloudbuild.yaml document, lowering of each step to a docker command     *)
(* line, assembly of the build script, writing it and optionally running   *)
(* it under bash.                                                          *)
(*                                                                         *)
(* Text is a sequence of pieces.  Every character that comes from the      *)
(* document is one piece (a one-character string); every literal of the    *)
(* program ("docker", "/workspace", the script header, ...) is one piece.  *)
(* A Python str is such a sequence, a Python list is a sequence of values. *)
(***************************************************************************)
EXTENDS Integers, Sequences, FiniteSets, TLC

VARIABLES
    pc,          \* position in local_cloudbuild
    raw_config,  \* the decoded document (yaml.safe_load result)
    run,         \* args.run
    steps,       \* Steps validated so far by get_cloudbuild's comprehension
    cloudbuild,  \* the CloudBuild recipe
    contents,    \* text returned by generate_script
    file,        \* the output script on disk
    proc,        \* the bash subprocess running the script
    result,      \* how local_cloudbuild ended
    raw_step,    \* argument of a stand-alone get_step call
    step_res,    \* its outcome
    step,        \* argument of a stand-alone generate_command call
    command,     \* its outcome
    argv         \* the command line as a POSIX shell splits it

vars == <<pc, raw_config, run, steps, cloudbuild, contents, file, proc, result,
          raw_step, step_res, step, command, argv>>

pipeVars == <<pc, raw_config, run, steps, cloudbuild, contents, file, proc, result>>
stepVars == <<raw_step, step_res>>
cmdVars  == <<step, command, argv>>

(* ------------------------------ bounds --------------------------------- *)
MaxSteps  == 2   \* longest `steps` sequence of a document
MaxElems  == 1   \* longest `args` / `env` sequence of a raw step
MaxStrLen == 2   \* longest probe string handed to generate_command

(* ------------------------ decoded YAML values -------------------------- *)
VNone    == [t |-> "NoneType"]
VStr(s)  == [t |-> "str",  v |-> s]
VInt(n)  == [t |-> "int",  n |-> n]
VList(l) == [t |-> "list", v |-> l]
VDict(d) == [t |-> "dict", v |-> d]

EmptyDict == <<>>

(* the sequences over S of length at most n *)
SeqsUpTo(S, n) == UNION {[1..k -> S] : k \in 0..n}

(* outcome of a call: a returned value or a raised ValueError *)
Ok(v)      == [ok |-> TRUE,  v |-> v]
ValueError == [ok |-> FALSE, v |-> <<>>]

Digit == <<"0", "1", "2", "3", "4", "5", "6", "7", "8", "9">>

RECURSIVE IntToStr(_)
IntToStr(n) ==
    IF n < 10 THEN <<Digit[n + 1]>>
              ELSE IntToStr(n \div 10) \o <<Digit[(n % 10) + 1]>>

(* field_type() : the empty value of the requested type *)
EmptyOf(field_type) == <<>>

(* validation_utils.get_field_value(container, field_name, field_type).    *)
(* container is a dict (function on keys) or a list (sequence, indexed     *)
(* from 1 here and from 0 in Python).                                      *)
get_field_value(container, field_name, field_type) ==
    IF field_name \notin DOMAIN container
    THEN Ok(EmptyOf(field_type))
    ELSE LET value == container[field_name] IN
         IF value.t = field_type THEN Ok(value.v)
         ELSE IF value.t = "int" /\ field_type = "str" THEN Ok(IntToStr(value.n))
         ELSE ValueError

(* [get_field_value(raw, index, str) for index in range(len(raw))] *)
get_str_list(raw) ==
    IF \E index \in DOMAIN raw : ~get_field_value(raw, index, "str").ok
    THEN ValueError
    ELSE Ok([index \in DOMAIN raw |-> get_field_value(raw, index, "str").v])

Step(args, dir_, env, name) ==
    [args |-> args, dir_ |-> dir_, env |-> env, name |-> name]

(* get_step with a default put in place of a `dir` of the wrong type *)
get_step_DefaultsBadDir(raw) ==
    IF raw.t # "dict" THEN ValueError
    ELSE LET raw_args == get_field_value(raw.v, "args", "list") IN
         IF ~raw_args.ok THEN ValueError
         ELSE LET args == get_str_list(raw_args.v) IN
         IF ~args.ok THEN ValueError
         ELSE LET dir_ == get_field_value(raw.v, "dir", "str") IN
         LET raw_env == get_field_value(raw.v, "env", "list") IN
         IF ~raw_env.ok THEN ValueError
         ELSE LET env == get_str_list(raw_env.v) IN
         IF ~env.ok THEN ValueError
         ELSE LET name == get_field_value(raw.v, "name", "str") IN
         IF ~name.ok THEN ValueError
         ELSE Ok(Step(args.v, dir_.v, env.v, name.v))

get_step(raw) ==
    IF raw.t # "dict" THEN ValueError
    ELSE LET raw_args == get_field_value(raw.v, "args", "list") IN
         IF ~raw_args.ok THEN ValueError
         ELSE LET args == get_str_list(raw_args.v) IN
         IF ~args.ok THEN ValueError
         ELSE LET dir_ == get_field_value(raw.v, "dir", "str") IN
         IF ~dir_.ok THEN ValueError
         ELSE LET raw_env == get_field_value(raw.v, "env", "list") IN
         IF ~raw_env.ok THEN ValueError
         ELSE LET env == get_str_list(raw_env.v) IN
         IF ~env.ok THEN ValueError
         ELSE LET name == get_field_value(raw.v, "name", "str") IN
         IF ~name.ok THEN ValueError
         ELSE Ok(Step(args.v, dir_.v, env.v, name.v))

(* ----------------------------- lowering ------------------------------- *)
(* the character ` (a string of this module cannot hold it) *)
BackQuote == "<backquote>"

(* characters that shlex.quote leaves alone: [\w@%+=:,./-] *)
SafeChars ==
    {"a", "b", "c", "d", "e", "f", "g", "h", "i", "j", "k", "l", "m", "n", "o", "p",
     "q", "r", "s", "t", "u", "v", "w", "x", "y", "z", "A", "B", "C", "D", "E", "F",
     "G", "H", "I", "J", "K", "L", "M", "N", "O", "P", "Q", "R", "S", "T", "U", "V",
     "W", "X", "Y", "Z", "0", "1", "2", "3", "4", "5", "6", "7", "8", "9", "_",
     "@", "%", "+", "=", ":", ",", ".", "/", "-"}

(* s.replace("'", "'\"'\"'") *)
RECURSIVE replace_quote(_)
replace_quote(s) ==
    IF s = <<>> THEN <<>>
    ELSE (IF Head(s) = "'" THEN <<"'", "\"", "'", "\"", "'">> ELSE <<Head(s)>>)
             \o replace_quote(Tail(s))

(* shlex.quote(s) *)
quote(s) ==
    IF s = <<>> THEN <<"'", "'">>
    ELSE IF \A j \in DOMAIN s : s[j] \in SafeChars THEN s
    ELSE <<"'">> \o replace_quote(s) \o <<"'">>

(* os.path.join(a, b) *)
path_join(a, b) ==
    IF b # <<>> /\ Head(b) = "/" THEN b
    ELSE IF a = <<>> \/ a[Len(a)] = "/" THEN a \o b
    ELSE a \o <<"/">> \o b

(* [shlex.quote(arg) for arg in l] *)
quote_all(l) == [j \in DOMAIN l |-> quote(l[j])]

(* for env in l: quoted_env.extend(['--env', shlex.quote(env)]) *)
quote_env(l) ==
    [j \in 1..(2 * Len(l)) |->
        IF j % 2 = 1 THEN <<"--env">> ELSE quote(l[j \div 2])]

FixedTokens ==
    << <<"docker">>,
       <<"run">>,
       <<"--volume">>,
       <<"/var/run/docker.sock:/var/run/docker.sock">>,
       <<"--volume">>,
       <<"/root/.docker:/root/.docker">>,
       <<"--volume">>,
       <<"${HOST_WORKSPACE}:/workspace">>,
       <<"--workdir">> >>

(* generate_command with the image name put before the --env flags *)
generate_command_NameBeforeEnv(s) ==
    FixedTokens
        \o << IF s.dir_ # <<>> THEN path_join(<<"/workspace">>, quote(s.dir_))
              ELSE <<"/workspace">> >>
        \o <<quote(s.name)>> \o quote_env(s.env) \o quote_all(s.args)

(* generate_command with the arguments left unquoted *)
generate_command_RawArgs(s) ==
    FixedTokens
        \o << IF s.dir_ # <<>> THEN path_join(<<"/workspace">>, quote(s.dir_))
              ELSE <<"/workspace">> >>
        \o quote_env(s.env) \o <<quote(s.name)>> \o s.args

generate_command(s) ==
    LET quoted_args == quote_all(s.args)
        quoted_env  == quote_env(s.env)
        quoted_name == quote(s.name)
        workdir     == IF s.dir_ # <<>>
                       THEN path_join(<<"/workspace">>, quote(s.dir_))
                       ELSE <<"/workspace">>
    IN  FixedTokens \o <<workdir>> \o quoted_env \o <<quoted_name>> \o quoted_args

(* ' '.join(tokens[lo..hi]); the range is halved to keep the evaluation    *)
(* shallow                                                                 *)
RECURSIVE join_range(_, _, _)
join_range(tokens, lo, hi) ==
    IF lo = hi THEN tokens[lo]
    ELSE LET mid == (lo + hi) \div 2
         IN  join_range(tokens, lo, mid) \o <<" ">> \o join_range(tokens, mid + 1, hi)

(* ' '.join(tokens) *)
join_space(tokens) ==
    IF tokens = <<>> THEN <<>> ELSE join_range(tokens, 1, Len(tokens))

(* ------------------- how a POSIX shell reads a text -------------------- *)
(* mode: "n" unquoted, "s" in '...', "d" in "...", "e" after an unquoted   *)
(* backslash, "de" after a backslash in "...".  meta records that a        *)
(* character was taken as an operator or an expansion, or that a quote was *)
(* left open.  A literal of the program is an ordinary piece of a word.    *)
ShStart ==
    [cmds |-> <<>>, words |-> <<>>, cur |-> <<>>, inword |-> FALSE,
     mode |-> "n", meta |-> FALSE]

ShPut(st, c) == [st EXCEPT !.cur = st.cur \o <<c>>, !.inword = TRUE]

ShEndWord(st) ==
    IF st.inword
    THEN [st EXCEPT !.words = Append(st.words, st.cur), !.cur = <<>>, !.inword = FALSE]
    ELSE st

ShEndCmd(st) ==
    LET w == ShEndWord(st) IN
    IF w.words # <<>>
    THEN [w EXCEPT !.cmds = Append(w.cmds, w.words), !.words = <<>>]
    ELSE w

ShChar(st, c) ==
    CASE st.mode = "s" ->
            IF c = "'" THEN [st EXCEPT !.mode = "n"] ELSE ShPut(st, c)
      [] st.mode = "d" ->
            IF c = "\"" THEN [st EXCEPT !.mode = "n"]
            ELSE IF c \in {"$", BackQuote} THEN [st EXCEPT !.meta = TRUE]
            ELSE IF c = "\\" THEN [st EXCEPT !.mode = "de"]
            ELSE ShPut(st, c)
      [] st.mode = "e" ->
            IF c = "\n" THEN [st EXCEPT !.mode = "n"]
            ELSE [ShPut(st, c) EXCEPT !.mode = "n"]
      [] st.mode = "de" ->
            IF c = "\n" THEN [st EXCEPT !.mode = "d"]
            ELSE IF c \in {"$", BackQuote, "\"", "\\"} THEN [ShPut(st, c) EXCEPT !.mode = "d"]
            ELSE [ShPut(ShPut(st, "\\"), c) EXCEPT !.mode = "d"]
      [] OTHER ->
            IF c = " " THEN ShEndWord(st)
            ELSE IF c = "\n" THEN ShEndCmd(st)
            ELSE IF c \in {";", "|"} THEN [ShEndCmd(st) EXCEPT !.meta = TRUE]
            ELSE IF c \in {"$", BackQuote} THEN [st EXCEPT !.meta = TRUE, !.inword = TRUE]
            ELSE IF c = "'" THEN [st EXCEPT !.mode = "s", !.inword = TRUE]
            ELSE IF c = "\"" THEN [st EXCEPT !.mode = "d", !.inword = TRUE]
            ELSE IF c = "\\" THEN [st EXCEPT !.mode = "e", !.inword = TRUE]
            ELSE ShPut(st, c)

(* the shell's state after reading text[lo..hi] from state st.  The range  *)
(* is halved, and the state after the first half is computed before the    *)
(* second half is read, to keep the evaluation shallow.                    *)
RECURSIVE ShScan(_, _, _, _)
ShScan(text, lo, hi, st) ==
    IF lo > hi THEN st
    ELSE IF lo = hi THEN ShChar(st, text[lo])
    ELSE LET mid == (lo + hi) \div 2
             left == ShScan(text, lo, mid, st)
         IN  IF left.mode = "" THEN left ELSE ShScan(text, mid + 1, hi, left)

(* the commands of a text, each a sequence of words *)
ShellParse(text) ==
    LET st == ShScan(text, 1, Len(text), ShStart)
        fin == ShEndCmd(st)
    IN  [cmds |-> fin.cmds, meta |-> fin.meta \/ st.mode # "n"]

(* ------------------------------ assembly ------------------------------ *)
(* file templates, each one piece of text *)
BUILD_SCRIPT_HEADER ==
    "#!/bin/bash\n"
    \o "# This is a generated file.  Do not edit.\n"
    \o "\n"
    \o "set -euo pipefail\n"
    \o "\n"
    \o "SOURCE_DIR=.\n"
    \o "\n"
    \o "# Setup staging directory\n"
    \o "HOST_WORKSPACE=$(mktemp -d)\n"
    \o "function cleanup {\n"
    \o "    if [ \"${HOST_WORKSPACE}\" != '/' -a -d \"${HOST_WORKSPACE}\" ]; then\n"
    \o "        rm -rf \"${HOST_WORKSPACE}\"\n"
    \o "    fi\n"
    \o "}\n"
    \o "trap cleanup EXIT\n"
    \o "\n"
    \o "# Copy source to staging directory\n"
    \o "echo \"Copying source to staging directory ${HOST_WORKSPACE}\"\n"
    \o "rsync -avzq --exclude=.git \"${SOURCE_DIR}\" \"${HOST_WORKSPACE}\"\n"
    \o "\n"
    \o "# Build commands\n"

BUILD_SCRIPT_FOOTER ==
    "# End of build commands\n"
    \o "\n"
    \o "echo \"Build completed successfully\"\n"

CloudBuild(output_script, run_, steps_) ==
    [output_script |-> output_script, run |-> run_, steps |-> steps_]

(* the loop of generate_script over docker_commands[lo..hi] *)
RECURSIVE write_commands(_, _, _)
write_commands(docker_commands, lo, hi) ==
    IF lo > hi THEN <<>>
    ELSE IF lo = hi THEN join_space(docker_commands[lo]) \o <<"\n", "\n">>
    ELSE LET mid == (lo + hi) \div 2
         IN  write_commands(docker_commands, lo, mid)
                 \o write_commands(docker_commands, mid + 1, hi)

(* generate_script writing the commands in reverse order *)
generate_script_Reversed(cb) ==
    LET n == Len(cb.steps)
        docker_commands == [j \in 1..n |-> generate_command(cb.steps[n + 1 - j])]
    IN  <<BUILD_SCRIPT_HEADER>> \o write_commands(docker_commands, 1, n)
            \o <<BUILD_SCRIPT_FOOTER>>

generate_script(cb) ==
    LET docker_commands == [j \in DOMAIN cb.steps |-> generate_command(cb.steps[j])]
    IN  <<BUILD_SCRIPT_HEADER>> \o write_commands(docker_commands, 1, Len(cb.steps))
            \o <<BUILD_SCRIPT_FOOTER>>

(* mode |= (mode & 0o444) >> 2, on the octal digits of the mode *)
make_executable(mode) ==
    [j \in DOMAIN mode |->
        IF mode[j] >= 4 /\ mode[j] % 2 = 0 THEN mode[j] + 1 ELSE mode[j]]

(* ------------------------- local_cloudbuild ---------------------------- *)
NoCloudBuild == CloudBuild(<<>>, FALSE, <<>>)
NoFile == [written |-> FALSE, text |-> <<>>, mode |-> <<>>]
NoProc ==
    [st |-> "none", cmds |-> <<>>, ran |-> <<>>, statuses |-> <<>>,
     status |-> 0, marker |-> FALSE, calls |-> 0]
NoResult == [kind |-> "none", status |-> 0]

OutputScript == <<"cloudbuild.yaml_local.sh">>

(* mode of a file created by open(path, 'w') under umask 022 *)
CreatedMode == <<6, 4, 4>>

(* exit statuses a docker run may end with *)
StepStatuses == {0, 1, 127}
(* exit statuses of mktemp, rsync and rm *)
ToolStatuses == {0, 1}

(* decoded steps the documents are built from *)
DocRawSteps ==
    {VDict(EmptyDict),
     VDict([name |-> VStr(<<"i", "m", "g">>)]),
     VDict([name |-> VStr(<<"i", "m", "g">>),
            args |-> VList(<<VStr(<<"a", " ", "b">>), VInt(2)>>),
            env  |-> VList(<<VStr(<<"k", "=", "\n">>)>>),
            dir  |-> VStr(<<"s", "u", "b">>)]),
     VDict([name |-> VStr(<<"i", "'", "m">>), args |-> VList(<<VStr(<<";">>)>>)]),
     VList(<<>>),
     VDict([dir |-> VDict(EmptyDict)])}

Documents ==
    {VNone, VStr(<<"a">>), VList(<<>>),
     VDict([foo |-> VStr(<<"b", "a", "r">>)]),
     VDict([steps |-> VStr(<<"a", "s", "t", "r", "i", "n", "g">>)])}
        \cup {VDict([steps |-> VList(l)]) : l \in SeqsUpTo(DocRawSteps, MaxSteps)}

PipeIdle ==
    /\ pc = "idle" /\ raw_config = VNone /\ run = FALSE /\ steps = <<>>
    /\ cloudbuild = NoCloudBuild /\ contents = <<>> /\ file = NoFile
    /\ proc = NoProc /\ result = NoResult

NoStepCall == [done |-> FALSE, r |-> ValueError]
NoCall == [done |-> FALSE, v |-> <<>>]
NoParse == [done |-> FALSE, cmds |-> <<>>, meta |-> FALSE]

StepIdle == raw_step = VNone /\ step_res = NoStepCall
CmdIdle == step = Step(<<>>, <<>>, <<>>, <<>>) /\ command = NoCall /\ argv = NoParse

Init ==
    /\ pc = "get_cloudbuild"
    /\ raw_config \in Documents
    /\ run \in BOOLEAN
    /\ steps = <<>>
    /\ cloudbuild = NoCloudBuild
    /\ contents = <<>>
    /\ file = NoFile
    /\ proc = NoProc
    /\ result = NoResult
    /\ StepIdle /\ CmdIdle

(* raw_steps of get_cloudbuild, once the checks of lines 96-103 passed *)
RawSteps == get_field_value(raw_config.v, "steps", "list").v

Raise(kind, status) ==
    /\ pc' = "raised"
    /\ result' = [kind |-> kind, status |-> status]

(* get_cloudbuild without the test for an empty `steps` *)
GetCloudbuildCheck_NoEmptyTest ==
    /\ pc = "get_cloudbuild"
    /\ IF raw_config.t # "dict" THEN Raise("ValueError", 0)
       ELSE LET raw_steps == get_field_value(raw_config.v, "steps", "list") IN
            IF ~raw_steps.ok THEN Raise("ValueError", 0)
            ELSE pc' = "get_steps" /\ UNCHANGED result
    /\ UNCHANGED <<raw_config, run, steps, cloudbuild, contents, file, proc,
                   stepVars, cmdVars>>

(* get_cloudbuild up to the comprehension: the document is a mapping with  *)
(* a non-empty `steps` list                                                *)
GetCloudbuildCheck ==
    /\ pc = "get_cloudbuild"
    /\ IF raw_config.t # "dict" THEN Raise("ValueError", 0)
       ELSE LET raw_steps == get_field_value(raw_config.v, "steps", "list") IN
            IF ~raw_steps.ok THEN Raise("ValueError", 0)
            ELSE IF raw_steps.v = <<>> THEN Raise("ValueError", 0)
            ELSE pc' = "get_steps" /\ UNCHANGED result
    /\ UNCHANGED <<raw_config, run, steps, cloudbuild, contents, file, proc,
                   stepVars, cmdVars>>

(* the comprehension putting each new Step in front *)
GetStepsIter_Prepends ==
    /\ pc = "get_steps"
    /\ Len(steps) < Len(RawSteps)
    /\ LET r == get_step(RawSteps[Len(steps) + 1]) IN
       IF r.ok THEN steps' = <<r.v>> \o steps /\ UNCHANGED <<pc, result>>
       ELSE Raise("ValueError", 0) /\ UNCHANGED steps
    /\ UNCHANGED <<raw_config, run, cloudbuild, contents, file, proc,
                   stepVars, cmdVars>>

(* one iteration of [get_step(raw_step) for raw_step in raw_steps] *)
GetStepsIter ==
    /\ pc = "get_steps"
    /\ Len(steps) < Len(RawSteps)
    /\ LET r == get_step(RawSteps[Len(steps) + 1]) IN
       IF r.ok THEN steps' = Append(steps, r.v) /\ UNCHANGED <<pc, result>>
       ELSE Raise("ValueError", 0) /\ UNCHANGED steps
    /\ UNCHANGED <<raw_config, run, cloudbuild, contents, file, proc,
                   stepVars, cmdVars>>

(* get_cloudbuild returning before the last step is validated *)
GetCloudbuildReturn_BeforeLast ==
    /\ pc = "get_steps"
    /\ Len(steps) >= Len(RawSteps) - 1
    /\ cloudbuild' = CloudBuild(OutputScript, run, steps)
    /\ pc' = "generate_script"
    /\ UNCHANGED <<raw_config, run, steps, contents, file, proc, result,
                   stepVars, cmdVars>>

(* return CloudBuild(...) once the comprehension is exhausted *)
GetCloudbuildReturn ==
    /\ pc = "get_steps"
    /\ Len(steps) = Len(RawSteps)
    /\ cloudbuild' = CloudBuild(OutputScript, run, steps)
    /\ pc' = "generate_script"
    /\ UNCHANGED <<raw_config, run, steps, contents, file, proc, result,
                   stepVars, cmdVars>>

GenerateScript ==
    /\ pc = "generate_script"
    /\ contents' = generate_script(cloudbuild)
    /\ pc' = "write_script"
    /\ UNCHANGED <<raw_config, run, steps, cloudbuild, file, proc, result,
                   stepVars, cmdVars>>

WriteScript ==
    /\ pc = "write_script"
    /\ file' = [written |-> TRUE, text |-> contents,
                mode |-> make_executable(CreatedMode)]
    /\ pc' = "run_check"
    /\ UNCHANGED <<raw_config, run, steps, cloudbuild, contents, proc, result,
                   stepVars, cmdVars>>

(* if cloudbuild.run is false local_cloudbuild returns *)
SkipRun ==
    /\ pc = "run_check"
    /\ ~cloudbuild.run
    /\ pc' = "done"
    /\ result' = [kind |-> "ok", status |-> 0]
    /\ UNCHANGED <<raw_config, run, steps, cloudbuild, contents, file, proc,
                   stepVars, cmdVars>>

(* the commands bash finds between the header and the footer of a script *)
ScriptCommands(text) ==
    IF Len(text) >= 2 /\ text[1] = BUILD_SCRIPT_HEADER
                      /\ text[Len(text)] = BUILD_SCRIPT_FOOTER
    THEN ShellParse(SubSeq(text, 2, Len(text) - 1)).cmds
    ELSE <<>>

(* subprocess.check_call starts the script; bash reads it *)
CheckCall ==
    /\ pc = "run_check"
    /\ cloudbuild.run
    /\ file.written /\ file.mode[1] % 2 = 1
    /\ proc' = [NoProc EXCEPT !.st = "mktemp", !.cmds = ScriptCommands(file.text),
                              !.calls = proc.calls + 1]
    /\ pc' = "check_call"
    /\ UNCHANGED <<raw_config, run, steps, cloudbuild, contents, file, result,
                   stepVars, cmdVars>>

(* HOST_WORKSPACE=$(mktemp -d) under set -e, before the trap is set *)
ScriptMktemp ==
    /\ proc.st = "mktemp"
    /\ \E rc \in ToolStatuses :
          proc' = IF rc = 0 THEN [proc EXCEPT !.st = "rsync"]
                  ELSE [proc EXCEPT !.st = "exited", !.status = rc]
    /\ UNCHANGED <<pc, raw_config, run, steps, cloudbuild, contents, file, result,
                   stepVars, cmdVars>>

(* trap cleanup EXIT; echo; rsync under set -e *)
ScriptRsync ==
    /\ proc.st = "rsync"
    /\ \E rc \in ToolStatuses :
          proc' = IF rc = 0 THEN [proc EXCEPT !.st = "steps"]
                  ELSE [proc EXCEPT !.st = "cleanup", !.status = rc]
    /\ UNCHANGED <<pc, raw_config, run, steps, cloudbuild, contents, file, result,
                   stepVars, cmdVars>>

(* the next build command runs to its end; set -e exits on a failure *)
ScriptStep ==
    /\ proc.st = "steps"
    /\ Len(proc.ran) < Len(proc.cmds)
    /\ \E rc \in StepStatuses :
          proc' = [proc EXCEPT !.ran = Append(@, proc.cmds[Len(proc.ran) + 1]),
                               !.statuses = Append(@, rc),
                               !.status = rc,
                               !.st = IF rc = 0 THEN "steps" ELSE "cleanup"]
    /\ UNCHANGED <<pc, raw_config, run, steps, cloudbuild, contents, file, result,
                   stepVars, cmdVars>>

(* echo "Build completed successfully", then the end of the script *)
ScriptFooter ==
    /\ proc.st = "steps"
    /\ Len(proc.ran) = Len(proc.cmds)
    /\ proc' = [proc EXCEPT !.marker = TRUE, !.status = 0, !.st = "cleanup"]
    /\ UNCHANGED <<pc, raw_config, run, steps, cloudbuild, contents, file, result,
                   stepVars, cmdVars>>

(* the EXIT trap: rm -rf of the staging directory, still under set -e; a   *)
(* failing rm ends the shell with rm's status                              *)
ScriptCleanup ==
    /\ proc.st = "cleanup"
    /\ \E rc \in ToolStatuses :
          proc' = [proc EXCEPT !.st = "exited",
                               !.status = IF rc = 0 THEN @ ELSE rc]
    /\ UNCHANGED <<pc, raw_config, run, steps, cloudbuild, contents, file, result,
                   stepVars, cmdVars>>

(* subprocess.call in place of check_call: the status is dropped *)
CheckCallReturn_DropsStatus ==
    /\ pc = "check_call"
    /\ proc.st = "exited"
    /\ pc' = "done" /\ result' = [kind |-> "ok", status |-> 0]
    /\ UNCHANGED <<raw_config, run, steps, cloudbuild, contents, file, proc,
                   stepVars, cmdVars>>

(* check_call returns, or raises CalledProcessError on a non-zero status *)
CheckCallReturn ==
    /\ pc = "check_call"
    /\ proc.st = "exited"
    /\ IF proc.status = 0
       THEN pc' = "done" /\ result' = [kind |-> "ok", status |-> 0]
       ELSE Raise("CalledProcessError", proc.status)
    /\ UNCHANGED <<raw_config, run, steps, cloudbuild, contents, file, proc,
                   stepVars, cmdVars>>

Next ==
    \/ GetCloudbuildCheck
    \/ GetStepsIter
    \/ GetCloudbuildReturn
    \/ GenerateScript
    \/ WriteScript
    \/ SkipRun
    \/ CheckCall
    \/ ScriptMktemp
    \/ ScriptRsync
    \/ ScriptStep
    \/ ScriptFooter
    \/ ScriptCleanup
    \/ CheckCallReturn

Spec == Init /\ [][Next]_vars

(* the document passes every check of get_cloudbuild and get_step *)
DocValid ==
    /\ raw_config.t = "dict"
    /\ "steps" \in DOMAIN raw_config.v
    /\ raw_config.v["steps"].t = "list"
    /\ raw_config.v["steps"].v # <<>>
    /\ \A j \in DOMAIN raw_config.v["steps"].v :
           get_step(raw_config.v["steps"].v[j]).ok

(* C1: the script is written only after the whole document, its last step  *)
(* included, has validated; it is executed only if it was written in this  *)
(* run and the run flag is true; a validation error leaves no script       *)
(* written and no subprocess started.                                      *)
C1_WriteOnlyAfterFullValidation ==
    /\ file.written =>
           /\ DocValid
           /\ Len(steps) = Len(raw_config.v["steps"].v)
    /\ proc.st # "none" => file.written /\ run /\ file.text = contents
    /\ result.kind = "ValueError" => ~file.written /\ proc.st = "none"
C1_Witness ==
    /\ result.kind = "ValueError"
    /\ run
    /\ raw_config.t = "dict"
    /\ Len(steps) >= 1
    /\ ~file.written /\ proc.st = "none"

(* C2: for a document whose `steps` is a non-empty list of valid steps,    *)
(* get_cloudbuild succeeds and the recipe holds one Step per input step,   *)
(* the j-th being get_step of the j-th input step.                         *)
C2_StepsPreserved ==
    /\ cloudbuild # NoCloudBuild =>
           /\ Len(cloudbuild.steps) = Len(RawSteps)
           /\ \A j \in DOMAIN RawSteps :
                  get_step(RawSteps[j]) = Ok(cloudbuild.steps[j])
    /\ DocValid /\ pc \notin {"get_cloudbuild", "get_steps"} =>
           /\ cloudbuild # NoCloudBuild
           /\ result.kind # "ValueError"
C2_Witness ==
    /\ pc = "generate_script"
    /\ Len(cloudbuild.steps) = 2
    /\ cloudbuild.steps[1] # cloudbuild.steps[2]

(* C3: get_cloudbuild raises ValueError and returns no recipe when the     *)
(* document is not a mapping (null included), has no `steps`, has a        *)
(* `steps` that is not a sequence, or has an empty `steps`.                *)
TopLevelInvalid ==
    \/ raw_config.t # "dict"
    \/ "steps" \notin DOMAIN raw_config.v
    \/ raw_config.v["steps"].t # "list"
    \/ raw_config.v["steps"].v = <<>>
C3_InvalidTopLevelRaises ==
    TopLevelInvalid /\ pc # "get_cloudbuild" =>
        /\ pc = "raised"
        /\ result.kind = "ValueError"
        /\ cloudbuild = NoCloudBuild
C3_Witness ==
    /\ pc = "raised"
    /\ raw_config = VDict([steps |-> VList(<<>>)])
    /\ result.kind = "ValueError"

(* C8: the script is the header, then per step in recipe order the         *)
(* step's tokens joined by single spaces and followed by two newlines,     *)
(* then the footer, and nothing else.                                      *)
CommandLine(s) == join_space(generate_command(s)) \o <<"\n", "\n">>
RECURSIVE LinesLen(_, _)
LinesLen(ss, k) == IF k = 0 THEN 0 ELSE LinesLen(ss, k - 1) + Len(CommandLine(ss[k]))
C8_ScriptLayout ==
    /\ pc \in {"write_script", "run_check", "check_call", "done"} => contents # <<>>
    /\ contents # <<>> =>
           LET ss == cloudbuild.steps IN
           /\ Len(contents) = 1 + LinesLen(ss, Len(ss)) + 1
           /\ contents[1] = BUILD_SCRIPT_HEADER
           /\ contents[Len(contents)] = BUILD_SCRIPT_FOOTER
           /\ \A k \in DOMAIN ss :
                  SubSeq(contents, 2 + LinesLen(ss, k - 1), 1 + LinesLen(ss, k))
                      = CommandLine(ss[k])
C8_Witness ==
    /\ pc = "write_script"
    /\ Len(cloudbuild.steps) = 2
    /\ cloudbuild.steps[1] # cloudbuild.steps[2]
    /\ Len(contents) > 4

(* C9: the build commands of the script run one after another in document  *)
(* order, each only after the one before it ended with status zero; when a *)
(* step fails no later step starts, the success marker is not printed and  *)
(* the script's exit status is the failing step's; the marker is printed   *)
(* only if every step ended with status zero.                              *)
C9_ScriptStopsWithStepStatus ==
    proc.st = "exited" =>
        /\ Len(proc.ran) <= Len(cloudbuild.steps)
        /\ \A j \in DOMAIN proc.ran :
               <<proc.ran[j]>>
                   = ShellParse(join_space(generate_command(cloudbuild.steps[j]))).cmds
        /\ \A j \in DOMAIN proc.statuses :
               j < Len(proc.statuses) => proc.statuses[j] = 0
        /\ (\E j \in DOMAIN proc.statuses : proc.statuses[j] # 0) =>
               /\ ~proc.marker
               /\ proc.status = proc.statuses[Len(proc.statuses)]
        /\ proc.marker =>
               /\ Len(proc.ran) = Len(cloudbuild.steps)
               /\ \A j \in DOMAIN proc.statuses : proc.statuses[j] = 0

(* C10: with execution enabled the script is started exactly once and its  *)
(* exit status decides the outcome: zero is success, a non-zero status is  *)
(* raised as CalledProcessError carrying that status; with execution       *)
(* disabled local_cloudbuild succeeds after writing the script.            *)
C10_ExitStatusPropagated ==
    /\ proc.calls <= 1
    /\ pc = "done" =>
           /\ result.kind = "ok" /\ file.written
           /\ IF cloudbuild.run
              THEN proc.st = "exited" /\ proc.status = 0 /\ proc.calls = 1
              ELSE proc.st = "none" /\ proc.calls = 0
    /\ proc.st = "exited" /\ pc # "check_call" =>
           IF proc.status = 0
           THEN pc = "done" /\ result.kind = "ok"
           ELSE pc = "raised"
                /\ result = [kind |-> "CalledProcessError", status |-> proc.status]
    /\ result.kind = "CalledProcessError" =>
           proc.st = "exited" /\ proc.calls = 1 /\ proc.status # 0
C10_Witness ==
    /\ pc = "raised"
    /\ result = [kind |-> "CalledProcessError", status |-> 127]
    /\ proc.calls = 1

(* --------------------- stand-alone get_step calls ---------------------- *)
Absent == [t |-> "absent"]

StepKeys == {"args", "dir", "env", "name"}

(* elements a decoded `args` / `env` sequence may hold *)
RawElems == {VStr(<<"a">>), VInt(2), VInt(12), VList(<<>>), VDict(EmptyDict)}

(* values a decoded `args` / `env` field may hold *)
RawListVals ==
    {VStr(<<"n", "o">>), VDict(EmptyDict)}
        \cup {VList(l) : l \in SeqsUpTo(RawElems, MaxElems)}

(* values a decoded `dir` / `name` field may hold *)
RawStrVals ==
    {VStr(<<>>), VStr(<<"a">>), VInt(2), VList(<<>>), VDict(EmptyDict)}

RawStepOf(a, d, e, n) ==
    LET f == [args |-> a, dir |-> d, env |-> e, name |-> n]
        K == {k \in StepKeys : f[k].t # "absent"}
    IN  VDict([k \in K |-> f[k]])

RawStepInputs ==
    {VList(<<>>), VStr(<<"a">>), VNone}
        \cup {RawStepOf(a, d, e, n) : a \in RawListVals \cup {Absent},
                                      d \in RawStrVals \cup {Absent},
                                      e \in RawListVals \cup {Absent},
                                      n \in RawStrVals \cup {Absent}}

InitStep ==
    /\ PipeIdle /\ CmdIdle
    /\ raw_step \in RawStepInputs
    /\ step_res = NoStepCall

GetStepCall ==
    /\ ~step_res.done
    /\ step_res' = [done |-> TRUE, r |-> get_step(raw_step)]
    /\ UNCHANGED <<raw_step, pipeVars, cmdVars>>

NextStep == GetStepCall

SpecStep == InitStep /\ [][NextStep]_vars

(* C4: get_step fails exactly on a non-mapping or a present field of the   *)
(* wrong type (args/env not a sequence, an args/env element or dir/name    *)
(* that is a list or mapping); otherwise it returns a Step in which an     *)
(* absent field is empty and a present field is the document's value, a    *)
(* number being turned into its decimal string.                            *)
IsScalar(x) == x.t \in {"str", "int"}
ScalarText(x) == IF x.t = "str" THEN x.v ELSE IntToStr(x.n)
FieldWrong(raw, k) ==
    /\ k \in DOMAIN raw.v
    /\ IF k \in {"args", "env"}
       THEN \/ raw.v[k].t # "list"
            \/ \E j \in DOMAIN raw.v[k].v : ~IsScalar(raw.v[k].v[j])
       ELSE ~IsScalar(raw.v[k])
FieldAsGiven(raw, k, got) ==
    IF k \in {"args", "env"}
    THEN /\ Len(got) = Len(raw.v[k].v)
         /\ \A j \in DOMAIN got : got[j] = ScalarText(raw.v[k].v[j])
    ELSE got = ScalarText(raw.v[k])
StepField(s, k) ==
    CASE k = "args" -> s.args [] k = "dir" -> s.dir_
      [] k = "env" -> s.env   [] k = "name" -> s.name
C4_GetStepDefaultsOnlyAbsent ==
    step_res.done =>
        IF raw_step.t # "dict" THEN ~step_res.r.ok
        ELSE /\ step_res.r.ok <=> ~\E k \in StepKeys : FieldWrong(raw_step, k)
             /\ step_res.r.ok =>
                    \A k \in StepKeys :
                        IF k \in DOMAIN raw_step.v
                        THEN FieldAsGiven(raw_step, k, StepField(step_res.r.v, k))
                        ELSE StepField(step_res.r.v, k) = <<>>
C4_Witness ==
    /\ step_res.done /\ step_res.r.ok
    /\ raw_step.t = "dict"
    /\ DOMAIN raw_step.v = {"args", "env"}
    /\ raw_step.v["args"] = VList(<<VInt(2)>>)
    /\ step_res.r.v = Step(<<<<"2">>>>, <<>>, <<>>, <<>>)

(* ----------------- stand-alone generate_command calls ------------------ *)
Alphabet == {"a", "/", " ", "'", "\"", "\n", "$", BackQuote, ";", "|", "\\"}

ProbeStrs == SeqsUpTo(Alphabet, MaxStrLen)

BaseStrs == {<<"x", "=", "1">>}

BaseSteps ==
    {Step(a, d, e, <<"i", "m", "g">>) : a \in SeqsUpTo(BaseStrs, MaxElems),
                                        d \in {<<>>, <<"s", "u", "b">>},
                                        e \in SeqsUpTo(BaseStrs, MaxElems)}

(* a base Step with the probe string put into one of its fields *)
Probe(b, field, s) ==
    CASE field = "args" -> [b EXCEPT !.args = <<s>> \o b.args]
      [] field = "dir"  -> [b EXCEPT !.dir_ = s]
      [] field = "env"  -> [b EXCEPT !.env = b.env \o <<s>>]
      [] field = "name" -> [b EXCEPT !.name = s]

CmdSteps == {Probe(b, f, s) : b \in BaseSteps, f \in StepKeys, s \in ProbeStrs}

InitCmd ==
    /\ PipeIdle /\ StepIdle
    /\ step \in CmdSteps
    /\ command = NoCall
    /\ argv = NoParse

GenerateCommandCall ==
    /\ ~command.done
    /\ command' = [done |-> TRUE, v |-> generate_command(step)]
    /\ UNCHANGED <<step, argv, pipeVars, stepVars>>

(* bash reads the joined line *)
ShellReadsLine ==
    /\ command.done /\ ~argv.done
    /\ LET r == ShellParse(join_space(command.v)) IN
       argv' = [done |-> TRUE, cmds |-> r.cmds, meta |-> r.meta]
    /\ UNCHANGED <<step, command, pipeVars, stepVars>>

NextCmd == GenerateCommandCall \/ ShellReadsLine

SpecCmd == InitCmd /\ [][NextCmd]_vars

FixedPrefix ==
    << <<"docker">>, <<"run">>,
       <<"--volume">>, <<"/var/run/docker.sock:/var/run/docker.sock">>,
       <<"--volume">>, <<"/root/.docker:/root/.docker">>,
       <<"--volume">>, <<"${HOST_WORKSPACE}:/workspace">>,
       <<"--workdir">> >>

(* C5: generate_command returns the nine fixed tokens and the workdir      *)
(* value, then `--env`, quote(entry) per env entry in order, then the      *)
(* quoted name once, then quote(arg) per argument in order:                *)
(* 10 + 2*len(env) + 1 + len(args) tokens.                                 *)
C5_CommandLayout ==
    command.done =>
        LET c == command.v
            ne == Len(step.env)
            na == Len(step.args)
        IN  /\ Len(c) = 10 + 2 * ne + 1 + na
            /\ SubSeq(c, 1, 9) = FixedPrefix
            /\ \A j \in 1..ne : /\ c[10 + 2 * j - 1] = <<"--env">>
                                /\ c[10 + 2 * j] = quote(step.env[j])
            /\ c[10 + 2 * ne + 1] = quote(step.name)
            /\ \A j \in 1..na : c[10 + 2 * ne + 1 + j] = quote(step.args[j])
C5_Witness ==
    /\ command.done
    /\ Len(step.env) = 2 /\ Len(step.args) = 1
    /\ step.env[2] = <<"a", " ">>
    /\ Len(command.v) = 16
    /\ command.v[13] = <<"--env">>
    /\ command.v[14] = <<"'", "a", " ", "'">>
    /\ command.v[15] = <<"i", "m", "g">>

(* C6: the token after --workdir is /workspace for an empty dir and        *)
(* /workspace, a separator and quote(dir) for every non-empty dir.         *)
C6_WorkdirUnderWorkspace ==
    command.done =>
        command.v[10] = IF step.dir_ = <<>> THEN <<"/workspace">>
                        ELSE <<"/workspace", "/">> \o quote(step.dir_)

(* C7: a POSIX shell reading the joined line finds one command of          *)
(* 10 + 2*len(env) + 1 + len(args) arguments, takes no character of the    *)
(* document as an operator or expansion, and gets back every env entry,    *)
(* the name and every argument exactly, and the dir at the end of the      *)
(* --workdir value; and unquote(quote(s)) = s for each of these strings.   *)
Unquotes(s) == ShellParse(quote(s)) = [cmds |-> << <<s>> >>, meta |-> FALSE]
EndsWith(w, s) ==
    /\ Len(w) >= Len(s)
    /\ SubSeq(w, Len(w) - Len(s) + 1, Len(w)) = s
C7_ShellRoundTrip ==
    argv.done =>
        /\ ~argv.meta
        /\ Len(argv.cmds) = 1
        /\ LET w == argv.cmds[1]
               ne == Len(step.env)
               na == Len(step.args)
           IN  /\ Len(w) = 10 + 2 * ne + 1 + na
               /\ SubSeq(w, 1, 9) = FixedPrefix
               /\ EndsWith(w[10], step.dir_)
               /\ \A j \in 1..ne : /\ w[10 + 2 * j - 1] = <<"--env">>
                                   /\ w[10 + 2 * j] = step.env[j]
               /\ w[10 + 2 * ne + 1] = step.name
               /\ \A j \in 1..na : w[10 + 2 * ne + 1 + j] = step.args[j]
        /\ Unquotes(step.name) /\ Unquotes(step.dir_)
        /\ \A j \in DOMAIN step.env : Unquotes(step.env[j])
        /\ \A j \in DOMAIN step.args : Unquotes(step.args[j])
C7_Witness ==
    /\ argv.done
    /\ step.args # <<>> /\ step.args[1] = <<"'", "$">>
    /\ command.v[Len(command.v) - Len(step.args) + 1]
           = <<"'", "'", "\"", "'", "\"", "'", "$", "'">>
    /\ argv.cmds[1][Len(argv.cmds[1]) - Len(step.args) + 1] = <<"'", "$">>

====
